---- MODULE Spec2Model ----
(***************************************************************************)
(* Model of the two PDF text extractors of pdf-transform:                  *)
(*   - CustomPDFExtractor (src/custom_pdf_extractor.py), the segmented     *)
(*     extractor: title detection, keyword footer filter, section registry *)
(*     and one output file per section;                                    *)
(*   - PDFExtractor (src/pdf_extractor.py), the flat extractor: positional *)
(*     header/footer filter and one output text.                           *)
(*                                                                         *)
(* A Python str is a sequence of characters; a character is a one-element  *)
(* token.  The three CJK characters of the author marker are written       *)
(* "Zuo", "Zhe", "Ming" (one token each), every other character is itself. *)
(***************************************************************************)
EXTENDS Integers, Sequences, FiniteSets, TLC

VARIABLES
    mode,             \* which program runs: "segmented" or "flat"
    doc,              \* the pages pdfplumber.open(pdf_path) yields
    header_threshold, \* PDFExtractor.header_threshold, in percent
    footer_threshold, \* PDFExtractor.footer_threshold, in percent
    pc,               \* "idle" | "loop" | "done"
    calls,            \* number of extract_text calls started on the extractor
    page_num,         \* pages of the current call already processed
    current_title,    \* local current_title of CustomPDFExtractor.extract_text
    sections,         \* self.sections, in insertion order
    extracted_text,   \* local extracted_text of PDFExtractor.extract_text
    title_info,       \* local title_info of the page processed last
    filtered_lines,   \* local filtered_lines of the page processed last
    log,              \* warnings/errors logged by the last step
    result,           \* what the last extract_text call returned
    files,            \* the files written so far: path -> body
    save_result       \* what save_to_files / save_to_file returned

vars == <<mode, doc, header_threshold, footer_threshold, pc, calls, page_num,
          current_title, sections, extracted_text, title_info, filtered_lines,
          log, result, files, save_result>>

----------------------------------------------------------------------------
(* Bounds of the model *)

MaxPages == 3

MaxCalls == 2

MaxLines == 5

MaxFlatLines == 3

----------------------------------------------------------------------------
(* Python str operations, on sequences of characters *)

NL == "\n"

\* the characters str.strip() and the regex class \s treat as whitespace
Whitespace == {" ", "\t", "\n", "\r"}

\* s[:n] of Python
Take(s, n) == IF n >= Len(s) THEN s ELSE SubSeq(s, 1, n)

RECURSIVE LStrip(_)
LStrip(s) ==
    IF s = <<>> THEN <<>>
    ELSE IF Head(s) \in Whitespace THEN LStrip(Tail(s)) ELSE s

RECURSIVE RStrip(_)
RStrip(s) ==
    IF s = <<>> THEN <<>>
    ELSE IF s[Len(s)] \in Whitespace THEN RStrip(SubSeq(s, 1, Len(s) - 1)) ELSE s

\* a faulty variant of Strip: only the left side is stripped
StripLeftOnly(s) == LStrip(s)

\* str.strip()
Strip(s) == RStrip(LStrip(s))

\* sub in s
Contains(s, sub) ==
    \E i \in 0..(Len(s) - Len(sub)) : SubSeq(s, i + 1, i + Len(sub)) = sub

\* s.split(sep) for a one-character sep: always at least one piece
RECURSIVE SplitFrom(_, _, _)
SplitFrom(s, sep, cur) ==
    IF s = <<>> THEN <<cur>>
    ELSE IF Head(s) = sep THEN <<cur>> \o SplitFrom(Tail(s), sep, <<>>)
    ELSE SplitFrom(Tail(s), sep, Append(cur, Head(s)))

Split(s, sep) == SplitFrom(s, sep, <<>>)

\* sep.join(parts)
RECURSIVE Join(_, _)
Join(parts, sep) ==
    IF parts = <<>> THEN <<>>
    ELSE IF Len(parts) = 1 THEN parts[1]
    ELSE parts[1] \o sep \o Join(Tail(parts), sep)

\* a faulty variant of CollapseWhitespace: only runs of the space character collapse
RECURSIVE CollapseSpacesOnly(_)
CollapseSpacesOnly(s) ==
    IF s = <<>> THEN <<>>
    ELSE IF Head(s) = " "
         THEN IF Len(s) > 1 /\ s[2] = " "
              THEN CollapseSpacesOnly(Tail(s))
              ELSE <<" ">> \o CollapseSpacesOnly(Tail(s))
         ELSE <<Head(s)>> \o CollapseSpacesOnly(Tail(s))

\* re.sub(r'\s+', ' ', s): every maximal run of whitespace becomes one space
RECURSIVE CollapseWhitespace(_)
CollapseWhitespace(s) ==
    IF s = <<>> THEN <<>>
    ELSE IF Head(s) \in Whitespace
         THEN <<" ">> \o CollapseWhitespace(LStrip(s))
         ELSE <<Head(s)>> \o CollapseWhitespace(Tail(s))

\* page_text = ' '.join(filtered_lines); re.sub(r'\s+', ' ', page_text).strip()
NormalizePageText(lines) == Strip(CollapseWhitespace(Join(lines, <<" ">>)))

----------------------------------------------------------------------------
(* CustomPDFExtractor.detect_title *)

\* the author marker searched in a heading's author line
AuthorMarker == <<"Zuo", "Zhe", "Ming">>

\* the footer keyword of the segmented extractor's filter
FooterKeyword == <<"x", "x", "x">>

\* how many leading lines of the page text detect_title looks at
TitleLines == 4

\* the least length of an author line
MinAuthorLen == 4

\* detect_title returning None
NoTitle == [found |-> FALSE]

\* whether page.extract_text() raises in detect_title during call number c
DetectRaises(page, c) ==
    \/ page.detErr = "always"
    \/ page.detErr = "after_first" /\ c > 1

\* [line.strip() for line in lines if line.strip()]
RECURSIVE CleanLines(_)
CleanLines(lines) ==
    IF lines = <<>> THEN <<>>
    ELSE IF Strip(Head(lines)) # <<>>
         THEN <<Strip(Head(lines))>> \o CleanLines(Tail(lines))
         ELSE CleanLines(Tail(lines))

\* a faulty variant of IsAuthorLine: the length test is off by one
IsAuthorLineLen3(author_line) ==
    Len(author_line) >= MinAuthorLen - 1 /\ Contains(author_line, AuthorMarker)

\* len(author_line) >= 4 and marker in author_line
IsAuthorLine(author_line) ==
    Len(author_line) >= MinAuthorLen /\ Contains(author_line, AuthorMarker)

\* the loop "for i in range(1, len(lines))", entered at Python index i
RECURSIVE ScanAuthor(_, _)
ScanAuthor(lines, i) ==
    IF i >= Len(lines) THEN NoTitle
    ELSE IF IsAuthorLine(lines[i + 1])
         THEN [found |-> TRUE,
               title |-> Strip(Join(Take(lines, i), <<" ">>)),
               author_info |-> lines[i + 1]]
         ELSE ScanAuthor(lines, i + 1)

detect_title(page, c) ==
    IF DetectRaises(page, c) THEN NoTitle
    ELSE IF page.text = <<>> THEN NoTitle
    ELSE LET raw == Take(Split(page.text, NL), TitleLines) IN
         IF Len(raw) < 2 THEN NoTitle
         ELSE LET lines == CleanLines(raw) IN
              IF Len(lines) < 2 THEN NoTitle
              ELSE ScanAuthor(lines, 1)

----------------------------------------------------------------------------
(* Pages: what the page source (pdfplumber) gives for one page *)

\* a line of the layout whose text page.search() does not find
Unlocatable == -1

\* the characters of the page's lines, joined as page.extract_text() gives them
RECURSIVE LayoutLines(_)
LayoutLines(layout) ==
    IF layout = <<>> THEN <<>>
    ELSE <<Head(layout).line>> \o LayoutLines(Tail(layout))

\* page.search(line): the top offsets of the matches of line, first match first
RECURSIVE Search(_, _)
Search(layout, line) ==
    IF layout = <<>> THEN <<>>
    ELSE IF Head(layout).line = line /\ Head(layout).top # Unlocatable
         THEN <<Head(layout).top>> \o Search(Tail(layout), line)
         ELSE Search(Tail(layout), line)

\* a page of the segmented extractor: its text and which calls on it raise
SegPage(text, detErr, extErr, fatal) ==
    [text |-> text, detErr |-> detErr, extErr |-> extErr, fatal |-> fatal,
     height |-> 10, layout |-> <<>>]

\* a page of the flat extractor: positioned lines
FlatPage(layout, extErr, fatal) ==
    [text |-> Join(LayoutLines(layout), <<NL>>), detErr |-> "never",
     extErr |-> extErr, fatal |-> fatal, height |-> 10, layout |-> layout]

----------------------------------------------------------------------------
(* The boilerplate filters *)

\* the loop of lines 123-126: keep the lines without the footer keyword
RECURSIVE KeywordFilter(_)
KeywordFilter(lines) ==
    IF lines = <<>> THEN <<>>
    ELSE IF ~Contains(Head(lines), FooterKeyword)
         THEN <<Head(lines)>> \o KeywordFilter(Tail(lines))
         ELSE KeywordFilter(Tail(lines))

\* a faulty variant of InBand: the footer bound is inclusive
InBandInclusive(height, ht, ft, line_top) ==
    height * ht < line_top * 100 /\ line_top * 100 <= height * ft

\* header_height < line_top < footer_height, thresholds in percent
InBand(height, ht, ft, line_top) ==
    height * ht < line_top * 100 /\ line_top * 100 < height * ft

\* the loop of lines 71-78 of the flat extractor
RECURSIVE PositionalFilter(_, _, _, _)
PositionalFilter(page, lines, ht, ft) ==
    IF lines = <<>> THEN <<>>
    ELSE LET line_bbox == Search(page.layout, Head(lines))
             rest == PositionalFilter(page, Tail(lines), ht, ft)
         IN IF line_bbox # <<>> /\ InBand(page.height, ht, ft, line_bbox[1])
            THEN <<Head(lines)>> \o rest
            ELSE rest

----------------------------------------------------------------------------
(* The sections registry: a dict, kept as its items in insertion order *)

\* current_title = "..." of line 84, the default title
DefaultTitle == <<"U", "N", "C">>

\* title in self.sections
HasTitle(secs, title) == \E i \in 1..Len(secs) : secs[i].title = title

\* the position of self.sections[title]
SectionIndex(secs, title) ==
    CHOOSE i \in 1..Len(secs) :
        /\ secs[i].title = title
        /\ \A j \in 1..(i - 1) : secs[j].title # title

NewSection(ti) ==
    [title |-> ti.title, author_info |-> ti.author_info, content |-> <<>>]

\* a faulty variant of RegisterTitle: a detected title always gets a fresh entry
RegisterTitleAlways(secs, ti) ==
    IF ti.found THEN Append(secs, NewSection(ti)) ELSE secs

\* lines 95-102: a detected title new to the registry gets an empty section
RegisterTitle(secs, ti) ==
    IF ti.found /\ ~HasTitle(secs, ti.title)
    THEN Append(secs, NewSection(ti))
    ELSE secs

\* a faulty variant of ActiveTitle: the title detected on a page applies from the next page
ActiveTitleLate(cur, ti) == cur

\* line 96: the title the page's text is filed under
ActiveTitle(cur, ti) == IF ti.found THEN ti.title ELSE cur

\* self.sections[title]['content'].append(page_text)
AppendContent(secs, title, page_text) ==
    LET k == SectionIndex(secs, title) IN
    [secs EXCEPT ![k].content = Append(@, page_text)]

\* a faulty variant of ExtractReturn: success needs a section with content
ExtractReturnContent(secs) == \E i \in 1..Len(secs) : secs[i].content # <<>>

\* line 142: return len(self.sections) > 0
ExtractReturn(secs) == Len(secs) > 0

----------------------------------------------------------------------------
(* CustomPDFExtractor.save_to_files *)

\* the characters the file name replaces by "_"
UnsafeChars == {"<", ">", ":", "\"", "/", "\\", "|", "?", "*"}

\* re.sub(r'[<>:"/\\|?*]', '_', title)
SafeTitle(title) ==
    [i \in 1..Len(title) |-> IF title[i] \in UnsafeChars THEN "_" ELSE title[i]]

\* os.path.join(output_dir, f"{safe_title}.txt"), relative to output_dir
FilePath(title) == SafeTitle(title) \o <<".", "t", "x", "t">>

\* what lines 164-167 write
FileBody(sec) ==
    sec.title \o <<NL>> \o sec.author_info \o <<NL, NL>>
        \o Join(sec.content, <<NL, NL>>)

\* open(path, 'w') and write: a file of that path is replaced
WriteFile(fs, path, body) ==
    {f \in fs : f.path # path} \cup {[path |-> path, body |-> body]}

\* the loop of lines 153-168 over the first n sections
RECURSIVE WriteSections(_, _, _)
WriteSections(fs, secs, n) ==
    IF n = 0 THEN fs
    ELSE LET before == WriteSections(fs, secs, n - 1)
             sec == secs[n]
         IN IF sec.content = <<>> THEN before
            ELSE WriteFile(before, FilePath(sec.title), FileBody(sec))

\* the output path of the flat extractor
OutputPath == <<"o", ".", "t", "x", "t">>

----------------------------------------------------------------------------
(* The documents the model runs on *)

\* all sequences over S of length 0..n
RECURSIVE SeqsUpTo(_, _)
SeqsUpTo(S, n) ==
    IF n = 0 THEN {<<>>}
    ELSE LET shorter == SeqsUpTo(S, n - 1) IN
         shorter \cup {Append(q, x) : q \in {r \in shorter : Len(r) = n - 1}, x \in S}

HeadingAB == <<"a", "/", "b", NL>> \o AuthorMarker
HeadingColon == <<"a", ":", "b", NL>> \o AuthorMarker \o <<"p">>

\* the pages of the segmented runs
SegPages ==
    { SegPage(<<"b">>, "never", FALSE, FALSE),                 \* body, no heading
      SegPage(HeadingAB \o <<"p">>, "never", FALSE, FALSE),    \* heading a/b by p
      SegPage(HeadingAB \o <<"q">>, "never", FALSE, FALSE),    \* heading a/b by q
      SegPage(HeadingColon, "never", FALSE, FALSE),            \* heading a:b
      SegPage(<<" ">>, "never", FALSE, FALSE),                 \* whitespace only
      SegPage(<<>>, "never", FALSE, FALSE),                    \* no text
      SegPage(<<"c", "x", "x", "x", NL>> \o AuthorMarker \o <<"x", "x", "x">>,
              "never", FALSE, FALSE),                          \* all lines footer
      SegPage(HeadingAB \o <<"p">>, "never", TRUE, FALSE),     \* extraction raises
      SegPage(HeadingColon, "after_first", FALSE, FALSE),      \* detection raises later
      SegPage(HeadingAB \o <<"q">>, "always", FALSE, FALSE),   \* detection raises
      SegPage(<<"b">>, "never", FALSE, TRUE) }                 \* page.height raises

Ln(line, top) == [line |-> line, top |-> top]

\* the pages of the flat runs (height 10: header band up to 2, footer from 8)
FlatPages ==
    { FlatPage(<<Ln(<<"a">>, 5)>>, FALSE, FALSE),
      FlatPage(<<Ln(<<"a">>, 1), Ln(<<" ", "b", "\t">>, 5), Ln(<<"a">>, 5)>>, FALSE, FALSE),
      FlatPage(<<Ln(<<"a">>, 2)>>, FALSE, FALSE),
      FlatPage(<<>>, FALSE, FALSE),
      FlatPage(<<Ln(<<"b">>, 5)>>, TRUE, FALSE),
      FlatPage(<<Ln(<<"a">>, Unlocatable), Ln(<<"b">>, 8)>>, FALSE, FALSE),
      FlatPage(<<Ln(<<"b">>, 5)>>, FALSE, TRUE) }

\* header_threshold and footer_threshold as __init__ sets them, in percent
DefaultHeaderPct == 20
DefaultFooterPct == 80

InitRun ==
    /\ pc = "idle"
    /\ calls = 0
    /\ page_num = 0
    /\ current_title = DefaultTitle
    /\ sections = <<>>
    /\ extracted_text = <<>>
    /\ title_info = NoTitle
    /\ filtered_lines = <<>>
    /\ log = {}
    /\ result = FALSE
    /\ files = {}
    /\ save_result = FALSE

Init ==
    /\ InitRun
    /\ header_threshold = DefaultHeaderPct
    /\ footer_threshold = DefaultFooterPct
    /\ \/ mode = "segmented" /\ doc \in SeqsUpTo(SegPages, MaxPages)
       \/ mode = "flat" /\ doc \in SeqsUpTo(FlatPages, MaxPages)

----------------------------------------------------------------------------
(* CustomPDFExtractor.extract_text, one step per page *)

\* a faulty variant of Aborts: a page's extraction error reaches the outer handler
AbortsOnPageError(page) == page.fatal \/ page.extErr

\* what reaches the outer except of extract_text: an error raised outside the
\* page's own try block (page.height)
Aborts(page) == page.fatal

CurPage == doc[page_num + 1]

\* lines 81-88: validate_pdf, then the loop starts at the default title
ExtractTextBegin ==
    /\ mode = "segmented"
    /\ pc = "idle"
    /\ calls < MaxCalls
    /\ calls' = calls + 1
    /\ page_num' = 0
    /\ current_title' = DefaultTitle
    /\ title_info' = NoTitle
    /\ filtered_lines' = <<>>
    /\ IF Len(doc) = 0
       THEN pc' = "idle" /\ result' = FALSE /\ log' = {"invalid_pdf"}
       ELSE pc' = "loop" /\ UNCHANGED result /\ log' = {}
    /\ UNCHANGED <<mode, doc, header_threshold, footer_threshold, sections,
                   extracted_text, files, save_result>>

\* lines 109-136 for one page, the registry being secs and the active title title
FilePage(page, secs, title) ==
    IF page.extErr
    THEN [sections |-> secs, filtered |-> <<>>, log |-> {"page_error"}]
    ELSE IF page.text = <<>>
    THEN [sections |-> secs, filtered |-> <<>>, log |-> {"no_text"}]
    ELSE LET lines == Split(page.text, NL)
             kept == KeywordFilter(lines)
         IN IF kept = <<>>
            THEN [sections |-> secs, filtered |-> kept, log |-> {}]
            ELSE IF HasTitle(secs, title)
            THEN [sections |-> AppendContent(secs, title, NormalizePageText(kept)),
                  filtered |-> kept, log |-> {}]
            ELSE \* KeyError, caught at line 134
                 [sections |-> secs, filtered |-> kept, log |-> {"page_error"}]

\* lines 90-136: one iteration of the page loop
ProcessPage ==
    /\ mode = "segmented"
    /\ pc = "loop"
    /\ page_num < Len(doc)
    /\ LET page == CurPage
           ti == detect_title(page, calls)
           dlog == IF DetectRaises(page, calls) THEN {"detect_error"} ELSE {}
           secs == RegisterTitle(sections, ti)
           title == ActiveTitle(current_title, ti)
       IN /\ title_info' = ti
          /\ current_title' = title
          /\ page_num' = page_num + 1
          /\ IF Aborts(page)
             THEN \* page.height raises: caught at line 138, return False
                  /\ sections' = secs
                  /\ filtered_lines' = <<>>
                  /\ log' = dlog \cup {"doc_error"}
                  /\ pc' = "idle"
                  /\ result' = FALSE
             ELSE LET f == FilePage(page, secs, title) IN
                  /\ sections' = f.sections
                  /\ filtered_lines' = f.filtered
                  /\ log' = dlog \cup f.log
                  /\ pc' = "loop"
                  /\ UNCHANGED result
    /\ UNCHANGED <<mode, doc, header_threshold, footer_threshold, calls,
                   extracted_text, files, save_result>>

\* line 142: the loop is over
ExtractTextEnd ==
    /\ mode = "segmented"
    /\ pc = "loop"
    /\ page_num = Len(doc)
    /\ pc' = "idle"
    /\ result' = ExtractReturn(sections)
    /\ log' = {}
    /\ UNCHANGED <<mode, doc, header_threshold, footer_threshold, calls, page_num,
                   current_title, sections, extracted_text, title_info,
                   filtered_lines, files, save_result>>

\* main, line 196: save_to_files runs once extract_text returned True.
\* The write of section number k + 1 may fail (caught at line 171).
SaveToFiles ==
    /\ mode = "segmented"
    /\ pc = "idle"
    /\ calls > 0
    /\ result = TRUE
    /\ \E k \in 0..Len(sections) :
          /\ k < Len(sections) => sections[k + 1].content # <<>>
          /\ files' = WriteSections(files, sections, k)
          /\ save_result' = (k = Len(sections))
          /\ log' = IF k = Len(sections) THEN {} ELSE {"save_error"}
    /\ pc' = "done"
    /\ UNCHANGED <<mode, doc, header_threshold, footer_threshold, calls, page_num,
                   current_title, sections, extracted_text, title_info,
                   filtered_lines, result>>

----------------------------------------------------------------------------
(* PDFExtractor.save_to_file and extract_text, one step per page *)

\* lines 42-49
FlatExtractBegin ==
    /\ mode = "flat"
    /\ pc = "idle"
    /\ calls < MaxCalls
    /\ calls' = calls + 1
    /\ page_num' = 0
    /\ extracted_text' = <<>>
    /\ filtered_lines' = <<>>
    /\ IF Len(doc) = 0
       THEN pc' = "idle" /\ result' = FALSE /\ save_result' = FALSE
            /\ log' = {"invalid_pdf"}
       ELSE pc' = "loop" /\ UNCHANGED <<result, save_result>> /\ log' = {}
    /\ UNCHANGED <<mode, doc, header_threshold, footer_threshold, current_title,
                   sections, title_info, files>>

\* lines 59-88 for one page
FlatFilePage(page, texts, ht, ft) ==
    IF page.extErr
    THEN [texts |-> texts, filtered |-> <<>>, log |-> {"page_error"}]
    ELSE IF page.text = <<>>
    THEN [texts |-> texts, filtered |-> <<>>, log |-> {"no_text"}]
    ELSE LET lines == Split(page.text, NL)
             kept == PositionalFilter(page, lines, ht, ft)
         IN IF kept = <<>>
            THEN [texts |-> texts, filtered |-> kept, log |-> {}]
            ELSE [texts |-> Append(texts, NormalizePageText(kept)),
                  filtered |-> kept, log |-> {}]

\* lines 51-88: one iteration of the page loop
FlatProcessPage ==
    /\ mode = "flat"
    /\ pc = "loop"
    /\ page_num < Len(doc)
    /\ page_num' = page_num + 1
    /\ IF Aborts(CurPage)
       THEN \* page.height raises: caught at line 90, return None
            /\ pc' = "idle"
            /\ result' = FALSE
            /\ save_result' = FALSE
            /\ log' = {"doc_error"}
            /\ filtered_lines' = <<>>
            /\ UNCHANGED extracted_text
       ELSE LET f == FlatFilePage(CurPage, extracted_text, header_threshold,
                                  footer_threshold) IN
            /\ extracted_text' = f.texts
            /\ filtered_lines' = f.filtered
            /\ log' = f.log
            /\ pc' = "loop"
            /\ UNCHANGED <<result, save_result>>
    /\ UNCHANGED <<mode, doc, header_threshold, footer_threshold, calls,
                   current_title, sections, title_info, files>>

\* lines 94-98, then lines 110-115 of save_to_file: the text is written if any;
\* the write may fail (caught at line 116)
FlatExtractEnd ==
    /\ mode = "flat"
    /\ pc = "loop"
    /\ page_num = Len(doc)
    /\ pc' = "idle"
    /\ result' = (extracted_text # <<>>)
    /\ IF extracted_text = <<>>
       THEN /\ log' = {"no_text_at_all"}
            /\ save_result' = FALSE
            /\ UNCHANGED files
       ELSE \E ok \in BOOLEAN :
            /\ save_result' = ok
            /\ log' = IF ok THEN {} ELSE {"save_error"}
            /\ files' = IF ok
                        THEN WriteFile(files, OutputPath,
                                       Join(extracted_text, <<NL, NL>>))
                        ELSE files
    /\ UNCHANGED <<mode, doc, header_threshold, footer_threshold, calls, page_num,
                   current_title, sections, extracted_text, title_info,
                   filtered_lines>>

Next ==
    \/ ExtractTextBegin
    \/ ProcessPage
    \/ ExtractTextEnd
    \/ SaveToFiles
    \/ FlatExtractBegin
    \/ FlatProcessPage
    \/ FlatExtractEnd

Spec == Init /\ [][Next]_vars

----------------------------------------------------------------------------
(* Single-page documents over a wide set of page texts and layouts *)

\* the lines a page text is made of
LineTexts ==
    { <<>>,
      <<" ">>,
      <<"\t", "a", " ", "\t", "b", " ">>,
      AuthorMarker,
      <<" ">> \o AuthorMarker \o <<"p", "\t">> }

\* the positioned lines a flat page is made of
FlatLines ==
    { Ln(<<"a">>, 1), Ln(<<"a">>, 2), Ln(<<"a">>, 5), Ln(<<"a">>, 8),
      Ln(<<"a">>, Unlocatable), Ln(<<" ", "b", "\t">>, 5), Ln(<<"b">>, 8) }

\* threshold pairs main accepts: 0 < header < footer < 1
ThresholdPairs == {<<20, 80>>, <<50, 80>>}

InitPage ==
    /\ InitRun
    /\ \/ /\ mode = "segmented"
          /\ header_threshold = DefaultHeaderPct
          /\ footer_threshold = DefaultFooterPct
          /\ \E ls \in SeqsUpTo(LineTexts, MaxLines), e \in {"never", "always"} :
                doc = <<SegPage(Join(ls, <<NL>>), e, FALSE, FALSE)>>
       \/ /\ mode = "flat"
          /\ \E th \in ThresholdPairs :
                header_threshold = th[1] /\ footer_threshold = th[2]
          /\ \E layout \in SeqsUpTo(FlatLines, MaxFlatLines) :
                doc = <<FlatPage(layout, FALSE, FALSE)>>

SpecPage == InitPage /\ [][Next]_vars

----------------------------------------------------------------------------
(* What the claims speak of *)

\* the page processed last
LastPage == doc[page_num]

IsBlank(t) == \A i \in 1..Len(t) : t[i] \in Whitespace

NonEmptyLine(l) == l # <<>>

\* the first four raw lines of a text, stripped, the empty ones dropped
HeadingLines(text) ==
    LET raw == Split(text, NL)
        first == SubSeq(raw, 1, IF Len(raw) < 4 THEN Len(raw) ELSE 4)
    IN SelectSeq([i \in 1..Len(first) |-> Strip(first[i])], NonEmptyLine)

\* the indices i >= 1 (0-based) of the lines that qualify as author lines
AuthorIndices(ls) ==
    {i \in 1..(Len(ls) - 1) : Len(ls[i + 1]) >= 4 /\ Contains(ls[i + 1], AuthorMarker)}

Least(S) == CHOOSE i \in S : \A j \in S : i <= j

\* C6: detect_title gives (title, author_info) for the smallest index i >= 1 of
\* the stripped non-empty lines among the first four whose line has length >= 4
\* and holds the author marker, title being lines [0..i) joined by single spaces
\* and author_info line i; with fewer than two such lines, with no such i, with
\* empty text or when the text source raises, it gives "no title found".
C6_DetectTitle ==
    (mode = "segmented" /\ page_num >= 1) =>
        LET ls == HeadingLines(LastPage.text)
            cand == AuthorIndices(ls)
        IN IF DetectRaises(LastPage, calls) \/ Len(ls) < 2 \/ cand = {}
           THEN title_info = NoTitle
           ELSE /\ title_info.found
                /\ title_info.title = Join(SubSeq(ls, 1, Least(cand)), <<" ">>)
                /\ title_info.author_info = ls[Least(cand) + 1]
                /\ Least(cand) >= 1

\* a heading whose title spans two lines, a second author line following
C6_Witness ==
    /\ mode = "segmented" /\ page_num >= 1
    /\ title_info.found
    /\ Cardinality(AuthorIndices(HeadingLines(LastPage.text))) = 2
    /\ Least(AuthorIndices(HeadingLines(LastPage.text))) = 2

\* the looked-up top offset of a line is strictly inside the body band
StrictlyInside(page, line) ==
    LET tops == Search(page.layout, line) IN
    /\ tops # <<>>
    /\ ~(tops[1] * 100 <= page.height * header_threshold)
    /\ ~(tops[1] * 100 >= page.height * footer_threshold)

KeptFlat(line) == StrictlyInside(LastPage, line)

\* C7: in the flat extractor a line is retained iff its position lookup succeeds
\* and the top offset found is strictly between header_height and footer_height;
\* the retained lines are the page's lines with the others left out, in order.
C7_PositionalFilter ==
    (mode = "flat" /\ page_num >= 1 /\ pc = "loop"
        /\ ~LastPage.extErr /\ LastPage.text # <<>>) =>
        filtered_lines = SelectSeq(Split(LastPage.text, NL), KeptFlat)

\* a page with a line exactly at footer_height (dropped) and a line retained
C7_Witness ==
    /\ mode = "flat" /\ page_num >= 1 /\ pc = "loop"
    /\ filtered_lines # <<>>
    /\ \E i \in 1..Len(LastPage.layout) :
          /\ LastPage.layout[i].top * 100 = LastPage.height * footer_threshold
          /\ \A j \in 1..Len(filtered_lines) :
                filtered_lines[j] # LastPage.layout[i].line

\* a normalized text: single spaces only, none at either end
IsNormalized(t) ==
    /\ \A i \in 1..Len(t) : t[i] \in Whitespace => t[i] = " "
    /\ \A i \in 1..(Len(t) - 1) : ~(t[i] = " " /\ t[i + 1] = " ")
    /\ t # <<>> => (t[1] # " " /\ t[Len(t)] # " ")

AllTexts ==
    UNION {{sections[i].content[j] : j \in 1..Len(sections[i].content)} :
              i \in 1..Len(sections)}
    \cup {extracted_text[i] : i \in 1..Len(extracted_text)}
    \cup {NormalizePageText(filtered_lines)}

\* C8: the text the normalizer makes of the retained lines has no two
\* consecutive spaces and no leading or trailing whitespace, and collapsing and
\* trimming it again returns it unchanged; so has every page-text stored.
C8_NormalizerIdempotent ==
    \A t \in AllTexts :
        /\ IsNormalized(t)
        /\ Strip(CollapseWhitespace(t)) = t

\* retained lines with tabs and spaces at the ends and runs inside
C8_Witness ==
    /\ Len(filtered_lines) >= 2
    /\ \E i \in 1..Len(filtered_lines) : Contains(filtered_lines[i], <<" ", "\t">>)
    /\ NormalizePageText(filtered_lines) # <<>>
    /\ Len(NormalizePageText(filtered_lines)) < Len(Join(filtered_lines, <<" ">>))

----------------------------------------------------------------------------
(* The segmented run, as a function of the document *)

\* the lines of a page the keyword filter retains
PageRetained(page) == KeywordFilter(Split(page.text, NL))

\* the page yields a page-text: it is extracted and has retained lines
PageFiles(page) ==
    ~page.fatal /\ ~page.extErr /\ page.text # <<>> /\ PageRetained(page) # <<>>

PageText(page) == NormalizePageText(PageRetained(page))

\* the heading detected on page p during call c
Detected(p, c) == detect_title(doc[p], c)

FatalPages == {p \in 1..Len(doc) : doc[p].fatal}

\* the pages call c has gone through: the current call is at page_num, an
\* earlier call ended at the first page raising a document-level error, if any
PagesDone(c) ==
    IF c = calls THEN page_num
    ELSE IF FatalPages = {} THEN Len(doc) ELSE Least(FatalPages)

\* the titles in force on pages 1..n of call c: on each page the one detected
\* on it, else the one in force on the page before, the default title at first
RECURSIVE TitlesInForce(_, _)
TitlesInForce(c, n) ==
    IF n = 0 THEN <<>>
    ELSE LET before == TitlesInForce(c, n - 1)
             d == Detected(n, c)
         IN Append(before, IF d.found THEN d.title
                           ELSE IF n = 1 THEN DefaultTitle ELSE before[n - 1])

\* the titles in force of calls 1..c, one sequence per call
RECURSIVE TitlesOfCalls(_)
TitlesOfCalls(c) ==
    IF c = 0 THEN <<>>
    ELSE Append(TitlesOfCalls(c - 1), TitlesInForce(c, PagesDone(c)))

\* for pages 1..n, the page-text each yields: <<text>>, or <<>> if it yields none
RECURSIVE TextsOfPages(_)
TextsOfPages(n) ==
    IF n = 0 THEN <<>>
    ELSE Append(TextsOfPages(n - 1),
                IF PageFiles(doc[n]) THEN <<PageText(doc[n])>> ELSE <<>>)

\* the page-texts of the first n pages whose title in force (inforce) is t
RECURSIVE TextsFor(_, _, _, _)
TextsFor(t, inforce, texts, n) ==
    IF n = 0 THEN <<>>
    ELSE TextsFor(t, inforce, texts, n - 1)
            \o (IF inforce[n] = t THEN texts[n] ELSE <<>>)

\* the same over calls 1..c, call after call
RECURSIVE TextsUpTo(_, _, _, _)
TextsUpTo(t, titles, texts, c) ==
    IF c = 0 THEN <<>>
    ELSE TextsUpTo(t, titles, texts, c - 1)
            \o TextsFor(t, titles[c], texts, Len(titles[c]))

\* every page of the document is read without any error
FaultFree ==
    \A p \in 1..Len(doc) :
        doc[p].detErr = "never" /\ ~doc[p].extErr /\ ~doc[p].fatal

TitleEverDetected ==
    \E c \in 1..calls : \E p \in 1..PagesDone(c) : Detected(p, c).found

\* C1 (as claimed): the registry holds the default section from the start, so
\* the pages with retained lines that come before any detected title have their
\* normalized text in the default section's content.  Stated for the first
\* call on a document whose pages all read without error.
C1_UnclassifiedKept ==
    (/\ mode = "segmented" /\ calls = 1 /\ page_num >= 1 /\ FaultFree
     /\ \A p \in 1..page_num : ~Detected(p, 1).found
     /\ \E p \in 1..page_num : PageFiles(doc[p]))
    => /\ HasTitle(sections, DefaultTitle)
       /\ sections[SectionIndex(sections, DefaultTitle)].content
              = TextsFor(DefaultTitle, TitlesInForce(1, page_num),
                         TextsOfPages(page_num), page_num)

\* C2: no two registry entries share a title; when a page's detected title is
\* already in the registry the step adds no entry, leaves that section's
\* author-info and every other section as they were, and appends the page's
\* text (if it has one) to that section's content.
C2_RepeatedTitleReusesSection ==
    /\ [](\A i, j \in 1..Len(sections) :
             sections[i].title = sections[j].title => i = j)
    /\ [][(/\ mode = "segmented" /\ pc = "loop" /\ page_num < Len(doc)
           /\ ~CurPage.fatal
           /\ Detected(page_num + 1, calls).found
           /\ HasTitle(sections, Detected(page_num + 1, calls).title))
          => LET t == Detected(page_num + 1, calls).title
                 k == SectionIndex(sections, t)
             IN /\ Len(sections') = Len(sections)
                /\ sections'[k].title = t
                /\ sections'[k].author_info = sections[k].author_info
                /\ sections'[k].content =
                      IF PageFiles(CurPage)
                      THEN Append(sections[k].content, PageText(CurPage))
                      ELSE sections[k].content
                /\ \A j \in 1..Len(sections) : j # k => sections'[j] = sections[j]
         ]_vars

\* a title seen again with another author line: one section, both pages' texts
C2_Witness ==
    /\ mode = "segmented" /\ page_num >= 2 /\ title_info.found
    /\ Len(sections) = 1
    /\ sections[1].title = title_info.title
    /\ sections[1].author_info # title_info.author_info
    /\ Len(sections[1].content) = 2

\* C3: every section's content is, call after call and in page order, the
\* page-texts of the pages whose title in force is the section's title, the
\* title in force on page p being the one detected on p or else the one
\* detected last before p; nothing is reordered, dropped or deduplicated.
C3_PageOrderRouting ==
    mode = "segmented" =>
        LET titles == TitlesOfCalls(calls)
            texts == TextsOfPages(Len(doc))
        IN /\ \A i \in 1..Len(sections) :
                 sections[i].content
                    = TextsUpTo(sections[i].title, titles, texts, calls)
           /\ \A c \in 1..calls : \A p \in 1..Len(titles[c]) :
                 titles[c][p] # DefaultTitle => HasTitle(sections, titles[c][p])

\* heading on page 1, none on pages 2-3: one section, three entries, the last
\* two equal and both kept
C3_Witness ==
    /\ mode = "segmented" /\ calls = 1 /\ page_num = 3
    /\ Detected(1, 1).found /\ ~Detected(2, 1).found /\ ~Detected(3, 1).found
    /\ Len(sections) = 1
    /\ Len(sections[1].content) = 3
    /\ sections[1].content[2] = sections[1].content[3]

\* C4 (as claimed): every file written belongs to a section to which some
\* non-blank page-text was appended.  Stated for documents whose pages all read
\* without error.
C4_NoFileForBlankSection ==
    (mode = "segmented" /\ FaultFree) =>
        \A f \in files :
            \E i \in 1..Len(sections) :
                /\ FilePath(sections[i].title) = f.path
                /\ \E j \in 1..Len(sections[i].content) :
                      ~IsBlank(sections[i].content[j])

NonEmptySections == {i \in 1..Len(sections) : sections[i].content # <<>>}

\* C5 (as claimed): after a successful save_to_files there is exactly one file
\* per non-empty section, named after the sanitized title and holding that
\* section's body.  Stated for documents whose pages all read without error.
C5_OneFilePerSection ==
    (mode = "segmented" /\ pc = "done" /\ save_result /\ FaultFree) =>
        /\ Cardinality(files) = Cardinality(NonEmptySections)
        /\ \A i \in NonEmptySections :
              [path |-> FilePath(sections[i].title),
               body |-> FileBody(sections[i])] \in files

\* the content accumulated so far, in either extractor, is left as it is
ContentKept ==
    /\ extracted_text' = extracted_text
    /\ Len(sections') >= Len(sections)
    /\ \A i \in 1..Len(sections') :
          IF i <= Len(sections) THEN sections'[i] = sections[i]
          ELSE sections'[i].content = <<>>

C10_SuccessIffTitleSeen ==
    mode = "segmented" =>
        /\ (pc = "idle" /\ calls > 0 /\ log \cap {"doc_error", "invalid_pdf"} = {})
              => /\ result = (Len(sections) > 0)
                 /\ result = TitleEverDetected
        /\ ~TitleEverDetected => files = {}

\* success with a title detected but no section holding any content
C10_Witness ==
    /\ mode = "segmented" /\ pc = "idle" /\ calls > 0
    /\ log \cap {"doc_error", "invalid_pdf"} = {}
    /\ result = TRUE
    /\ NonEmptySections = {}

====
